---- MODULE Spec2Model ----
(***************************************************************************)
(* rpc-gen (main.go): the generator that scans the working directory for   *)
(* Go interface declarations, validates each method's signature, builds a   *)
(* ServiceData per interface, renders clientTemplate and writes            *)
(* <lowercase(service)>_client_gen.go.                                      *)
(*                                                                         *)
(* Go strings are sequences of one-character strings where the code looks   *)
(* inside them (file names, service names: HasSuffix, ToLower) and         *)
(* sequences of tokens where it only concatenates or strips a prefix        *)
(* (type names: "*" + name, TrimPrefix).                                    *)
(***************************************************************************)
EXTENDS Integers, Sequences, FiniteSets, TLC

VARIABLES
    decl,           \* SpecSig: the *ast.FuncType handed to the validator
    verdict,        \* SpecSig: "none", or what validateMethodSignature did
    extracted,      \* SpecSig: what extractMethods did with an interface of decl alone
    sd,             \* SpecRender: the ServiceData handed to the template
    out,            \* SpecRender: the rendered text, <<>> before rendering
    dir,            \* Spec: the working directory, file name -> content
    pc,             \* Spec: where main is
    serviceDatas,   \* Spec: main's serviceDatas slice
    idx,            \* Spec: index of the next element of the generation loop
    run,            \* Spec: number of the current process run
    order,          \* Spec: the files ParseDir read, in the order main ranged over them
    failure,        \* Spec: the error that stopped the run, and the loop index it stopped at
    firstServices   \* Spec: the services the first run discovered

sigVars == <<decl, verdict, extracted>>
renderVars == <<sd, out>>
pipeVars == <<dir, pc, serviceDatas, idx, run, order, failure, firstServices>>
vars == <<decl, verdict, extracted, sd, out, dir, pc, serviceDatas, idx, run,
          order, failure, firstServices>>

(***************************************************************************)
(* Bounds of the model.                                                    *)
(***************************************************************************)
MaxStars == 2       \* deepest pointer nesting of a type expression
MaxNames == 2       \* most names in one grouped field (a, b T)
MaxN == 3           \* most methods of a rendered ServiceData
MaxIfaces == 2      \* most interface declarations in the scanned sources
MaxRuns == 2        \* most runs of the tool over the directory

(***************************************************************************)
(* go/ast type expressions.  A type expression is a chain of StarExpr      *)
(* around a base that is an Ident, a SelectorExpr or anything else         *)
(* (ArrayType, MapType, FuncType, ...).  go/parser builds a SelectorExpr   *)
(* in type position only as identifier "." identifier, so its X is always  *)
(* an Ident: pkg holds X's name and name holds Sel's.                       *)
(***************************************************************************)
Ident(n) == [stars |-> 0, base |-> "Ident", pkg |-> "", name |-> n]
Selector(p, n) == [stars |-> 0, base |-> "Selector", pkg |-> p, name |-> n]
OtherExpr == [stars |-> 0, base |-> "Other", pkg |-> "", name |-> ""]
Star(e) == [e EXCEPT !.stars = @ + 1]

IsIdent(e) == e.stars = 0 /\ e.base = "Ident"
IsSelectorExpr(e) == e.stars = 0 /\ e.base = "Selector"
IsStarExpr(e) == e.stars > 0
StarX(e) == [e EXCEPT !.stars = @ - 1]

\* A field of a parameter or result list: Names is the number of names it
\* declares (0 when unnamed, 2 for a, b T), Type its type expression.
Field(n, t) == [Names |-> n, Type |-> t]
\* *ast.FieldList, or nil.
FieldList(l) == [nil |-> FALSE, List |-> l]
NilFieldList == [nil |-> TRUE, List |-> <<>>]
FuncType(params, results) == [Params |-> params, Results |-> results]

(***************************************************************************)
(* strings.HasPrefix / TrimPrefix / HasSuffix / ToLower                     *)
(***************************************************************************)
HasPrefix(s, p) == Len(s) >= Len(p) /\ SubSeq(s, 1, Len(p)) = p
TrimPrefix(s, p) == IF HasPrefix(s, p) THEN SubSeq(s, Len(p) + 1, Len(s)) ELSE s
HasSuffix(s, suf) ==
    Len(s) >= Len(suf) /\ SubSeq(s, Len(s) - Len(suf) + 1, Len(s)) = suf

LowerOf(c) ==
    CASE c = "E" -> "e"
      [] c = "M" -> "m"
      [] c = "S" -> "s"
      [] c = "U" -> "u"
      [] OTHER -> c
ToLower(s) == [i \in 1..Len(s) |-> LowerOf(s[i])]

(***************************************************************************)
(* extractTypeName                                                         *)
(***************************************************************************)
RECURSIVE extractTypeName(_)
extractTypeName(expr) ==
    IF IsIdent(expr) THEN <<expr.name>>
    ELSE IF IsStarExpr(expr) THEN <<"*">> \o extractTypeName(StarX(expr))
    ELSE <<"unknown">>

(***************************************************************************)
(* The signature validator.  Its result is "true", "false", or "panic"     *)
(* where the Go code would dereference nil or index past a list.           *)
(***************************************************************************)
\* The validator without its check that the method has results.
validateWithoutResultsNilCheck(funcType) ==
    IF funcType.Params.nil THEN "false"
    ELSE IF Len(funcType.Params.List) # 2 THEN "false"
    ELSE IF ~IsSelectorExpr(funcType.Params.List[1].Type) THEN "false"
    ELSE IF <<funcType.Params.List[1].Type.pkg, ".",
              funcType.Params.List[1].Type.name>> # <<"context", ".", "Context">>
         THEN "false"
    ELSE IF ~IsIdent(funcType.Params.List[2].Type) THEN "false"
    ELSE IF funcType.Results.nil THEN "panic"
    ELSE IF Len(funcType.Results.List) # 2 THEN "false"
    ELSE IF ~IsStarExpr(funcType.Results.List[1].Type) THEN "false"
    ELSE IF ~IsIdent(funcType.Results.List[2].Type) THEN "false"
    ELSE IF funcType.Results.List[2].Type.name # "error" THEN "false"
    ELSE "true"

\* The validator without its checks of the two parameter types.
validateWithoutParamTypeChecks(funcType) ==
    IF funcType.Params.nil THEN "false"
    ELSE IF Len(funcType.Params.List) # 2 THEN "false"
    ELSE IF funcType.Results.nil THEN "false"
    ELSE IF Len(funcType.Results.List) # 2 THEN "false"
    ELSE IF ~IsStarExpr(funcType.Results.List[1].Type) THEN "false"
    ELSE IF ~IsIdent(funcType.Results.List[2].Type) THEN "false"
    ELSE IF funcType.Results.List[2].Type.name # "error" THEN "false"
    ELSE "true"

\* validateMethodSignature, its checks in the code's order.  extractMethods
\* hands it a non-nil funcType, and go/parser a non-nil Params.
validateMethodSignature(funcType) ==
    IF funcType.Params.nil THEN "false"
    ELSE IF Len(funcType.Params.List) # 2 THEN "false"
    ELSE IF ~IsSelectorExpr(funcType.Params.List[1].Type) THEN "false"
    ELSE IF <<funcType.Params.List[1].Type.pkg, ".",
              funcType.Params.List[1].Type.name>> # <<"context", ".", "Context">>
         THEN "false"
    ELSE IF ~IsIdent(funcType.Params.List[2].Type) THEN "false"
    ELSE IF funcType.Results.nil THEN "false"
    ELSE IF Len(funcType.Results.List) # 2 THEN "false"
    ELSE IF ~IsStarExpr(funcType.Results.List[1].Type) THEN "false"
    ELSE IF ~IsIdent(funcType.Results.List[2].Type) THEN "false"
    ELSE IF funcType.Results.List[2].Type.name # "error" THEN "false"
    ELSE "true"

(***************************************************************************)
(* An entry of interfaceType.Methods.List: a method (Type is a FuncType,   *)
(* one name) or an embedded interface (Type is not a FuncType, no name).   *)
(***************************************************************************)
MethodDecl(n, ft) == [isFunc |-> TRUE, Name |-> n, Type |-> ft]
NoFuncType == FuncType(NilFieldList, NilFieldList)
Embedded(n) == [isFunc |-> FALSE, Name |-> n, Type |-> NoFuncType]

Method(n, req, resp) == [Name |-> n, RequestType |-> req, ResponseType |-> resp]

\* The body of extractMethods' loop for one accepted method.
extractMethod(method) ==
    Method(method.Name,
           extractTypeName(method.Type.Params.List[2].Type),
           TrimPrefix(extractTypeName(method.Type.Results.List[1].Type), <<"*">>))

\* extractMethods: [panic, methods]; the loop stops where the validator panics.
RECURSIVE extractMethodsFrom(_, _)
extractMethodsFrom(list, methods) ==
    IF list = <<>> THEN [panic |-> FALSE, methods |-> methods]
    ELSE IF ~Head(list).isFunc THEN extractMethodsFrom(Tail(list), methods)
    ELSE IF validateMethodSignature(Head(list).Type) = "panic"
         THEN [panic |-> TRUE, methods |-> methods]
    ELSE IF validateMethodSignature(Head(list).Type) = "false"
         THEN extractMethodsFrom(Tail(list), methods)
    ELSE extractMethodsFrom(Tail(list), Append(methods, extractMethod(Head(list))))

\* extractMethods that leaves its loop at the first rejected method.
RECURSIVE extractMethodsUntilRejected(_)
extractMethodsUntilRejected(list) ==
    IF list = <<>> THEN [panic |-> FALSE, methods |-> <<>>]
    ELSE IF ~Head(list).isFunc THEN extractMethodsUntilRejected(Tail(list))
    ELSE IF validateMethodSignature(Head(list).Type) # "true"
         THEN [panic |-> FALSE, methods |-> <<>>]
    ELSE [panic |-> FALSE,
          methods |-> <<extractMethod(Head(list))>>
                          \o extractMethodsUntilRejected(Tail(list)).methods]

extractMethods(list) == extractMethodsFrom(list, <<>>)

(***************************************************************************)
(* Values the variables of a specification hold while another one runs.    *)
(***************************************************************************)
IdleDecl == NoFuncType
NotExtracted == [done |-> FALSE, panic |-> FALSE, methods |-> <<>>]
IdleSd == [PackageName |-> <<>>, ServiceName |-> <<>>, Methods |-> <<>>]
NoFailure == [kind |-> "none", k |-> 0]

SigIdle == decl = IdleDecl /\ verdict = "none" /\ extracted = NotExtracted
RenderIdle == sd = IdleSd /\ out = <<>>
PipeIdle ==
    /\ dir = <<>> /\ pc = "Idle" /\ serviceDatas = <<>> /\ idx = 0 /\ run = 0
    /\ order = <<>> /\ failure = NoFailure /\ firstServices = {}

(***************************************************************************)
(* SpecSig: the validator and the extractor applied to one method          *)
(* declaration drawn from a bounded set of signatures.                     *)
(***************************************************************************)
MaxFields == 3      \* longest parameter or result list

SeqsUpTo(S, n) == UNION {[1..k -> S] : k \in 0..n}

\* Pointer chains over a named type, up to MaxStars deep.
RECURSIVE Stars(_, _)
Stars(e, k) == IF k = 0 THEN e ELSE Star(Stars(e, k - 1))

SigParamTypes ==
    {Selector("context", "Context"), Selector("pkg", "Context"),
     Ident("Msg"), Star(Ident("Msg"))}
SigResultTypes ==
    {Stars(Ident("Reply"), k) : k \in 0..MaxStars}
        \cup {Star(Selector("pkg", "Reply")), Star(OtherExpr), Ident("error")}

\* Lists of up to MaxFields fields; the longest ones without grouped names.
SigFieldLists(types) ==
    {l \in SeqsUpTo({Field(n, t) : n \in 1..MaxNames, t \in types}, MaxFields) :
        Len(l) = MaxFields => \A i \in 1..Len(l) : l[i].Names = 1}

SigDecls ==
    {FuncType(FieldList(p), r) :
        p \in SigFieldLists(SigParamTypes),
        r \in {NilFieldList} \cup {FieldList(l) : l \in SigFieldLists(SigResultTypes)}}

InitSig ==
    /\ decl \in SigDecls
    /\ verdict = "none"
    /\ extracted = NotExtracted
    /\ RenderIdle
    /\ PipeIdle

\* validateMethodSignature(fset, fileName, serviceName, methodName, decl)
Validate ==
    /\ verdict = "none"
    /\ verdict' = validateMethodSignature(decl)
    /\ UNCHANGED <<decl, extracted, renderVars, pipeVars>>

\* extractMethods on an interface whose only method M has the type decl
Extract ==
    /\ ~extracted.done
    /\ extracted' = [done |-> TRUE,
                     panic |-> extractMethods(<<MethodDecl("M", decl)>>).panic,
                     methods |-> extractMethods(<<MethodDecl("M", decl)>>).methods]
    /\ UNCHANGED <<decl, verdict, renderVars, pipeVars>>

NextSig == Validate \/ Extract
SpecSig == InitSig /\ [][NextSig]_vars

(***************************************************************************)
(* clientTemplate.  The rendered text is the sequence of the declarations  *)
(* and statements the template emits, in the template's order; each has    *)
(* the same fields: what it is, its name, its argument, its result and the *)
(* call it makes.                                                          *)
(***************************************************************************)
Item(kind, name, arg, ret, call) ==
    [kind |-> kind, name |-> name, arg |-> arg, ret |-> ret, call |-> call]

\* package {{.PackageName}}
packageClause(serviceData) ==
    Item("package", serviceData.PackageName, <<>>, <<>>, <<>>)

\* gob.Register({{.ResponseType}}{}) then gob.Register({{.RequestType}}{})
registerPairSwapped(method) ==
    << Item("register", <<"gob.Register">>, method.RequestType \o <<"{}">>, <<>>, <<>>),
       Item("register", <<"gob.Register">>, method.ResponseType \o <<"{}">>, <<>>, <<>>) >>

registerPair(method) ==
    << Item("register", <<"gob.Register">>, method.ResponseType \o <<"{}">>, <<>>, <<>>),
       Item("register", <<"gob.Register">>, method.RequestType \o <<"{}">>, <<>>, <<>>) >>

\* type {{.ServiceName}}Client struct { client *rpc.Client }
clientType(serviceData) ==
    Item("type", serviceData.ServiceName \o <<"Client">>, <<>>, <<>>, <<>>)

\* func New{{.ServiceName}}Client(address string) (*{{.ServiceName}}Client, error)
constructor(serviceData) ==
    Item("constructor", <<"New">> \o serviceData.ServiceName \o <<"Client">>,
         <<"string">>, <<"*">> \o serviceData.ServiceName \o <<"Client">>,
         <<"rpc.Dial">>)

\* func (c *{{$.ServiceName}}Client) {{.Name}}(request {{.RequestType}})
\*     (*{{.ResponseType}}, error), calling "{{$.ServiceName}}.{{.Name}}"
callMethod(serviceData, method) ==
    Item("call", <<method.Name>>, method.RequestType,
         <<"*">> \o method.ResponseType,
         serviceData.ServiceName \o <<".", method.Name>>)

\* func (c *{{.ServiceName}}Client) Close() error
closeMethod(serviceData) ==
    Item("close", <<"Close">>, <<>>, <<"error">>, <<"c.client.Close">>)

RECURSIVE rangeRegister(_)
rangeRegister(methods) ==
    IF methods = <<>> THEN <<>>
    ELSE registerPair(Head(methods)) \o rangeRegister(Tail(methods))

RECURSIVE rangeMethods(_, _)
rangeMethods(serviceData, methods) ==
    IF methods = <<>> THEN <<>>
    ELSE <<callMethod(serviceData, Head(methods))>>
             \o rangeMethods(serviceData, Tail(methods))

\* temp.Execute(buf, serviceData)
executeTemplate(serviceData) ==
    <<packageClause(serviceData)>>
        \o rangeRegister(serviceData.Methods)
        \o <<clientType(serviceData), constructor(serviceData)>>
        \o rangeMethods(serviceData, serviceData.Methods)
        \o <<closeMethod(serviceData)>>

\* imports.Process: the text with the import declarations of the packages
\* it refers to added after the package clause (fmt and net/rpc by the
\* constructor, encoding/gob by a registration).
importsProcess(text) ==
    <<Head(text)>>
        \o (IF \E i \in 1..Len(text) : text[i].kind = "register"
            THEN <<Item("import", <<"encoding/gob">>, <<>>, <<>>, <<>>)>> ELSE <<>>)
        \o <<Item("import", <<"fmt">>, <<>>, <<>>, <<>>),
             Item("import", <<"net/rpc">>, <<>>, <<>>, <<>>)>>
        \o Tail(text)

\* The text generateClientCode writes when nothing fails.
formattedText(serviceData) == importsProcess(executeTemplate(serviceData))

(***************************************************************************)
(* Names of the examples.                                                  *)
(***************************************************************************)
StrEcho == <<"E", "c", "h", "o">>
StrEchoLower == <<"e", "c", "h", "o">>
StrMyService == <<"M", "y", "S", "e", "r", "v", "i", "c", "e">>
StrApi == <<"api">>

(***************************************************************************)
(* SpecRender: the template applied to one ServiceData drawn from a        *)
(* bounded set.                                                            *)
(***************************************************************************)
RenderMethods ==
    {Method(n, <<req>>, resp) :
        n \in {"Say", "Get"}, req \in {"Msg", "Req"},
        resp \in {<<"Reply">>, <<"*", "Reply">>}}

RenderInputs ==
    {[PackageName |-> StrApi, ServiceName |-> n, Methods |-> ms] :
        n \in {StrEcho, StrMyService}, ms \in SeqsUpTo(RenderMethods, MaxN)}

InitRender ==
    /\ sd \in RenderInputs
    /\ out = <<>>
    /\ SigIdle
    /\ PipeIdle

\* temp.Execute and imports.Process of generateClientCode
Render ==
    /\ out = <<>>
    /\ out' = formattedText(sd)
    /\ UNCHANGED <<sd, sigVars, pipeVars>>

NextRender == Render
SpecRender == InitRender /\ [][NextRender]_vars

\* The items of one kind, in order.
ItemsOf(text, kind) == SelectSeq(text, LAMBDA it : it.kind = kind)

\* C7: rendering a ServiceData with N methods gives exactly N call-wrapping
\* methods in method order, exactly 2N registrations, one pair per method in
\* method order with the response type before the request type, and exactly
\* one client type, one constructor and one Close method.
C7_RenderShape ==
    out # <<>> =>
        /\ Len(ItemsOf(out, "call")) = Len(sd.Methods)
        /\ \A i \in 1..Len(sd.Methods) :
              /\ ItemsOf(out, "call")[i].name = <<sd.Methods[i].Name>>
              /\ ItemsOf(out, "call")[i].arg = sd.Methods[i].RequestType
              /\ ItemsOf(out, "call")[i].ret = <<"*">> \o sd.Methods[i].ResponseType
        /\ Len(ItemsOf(out, "register")) = 2 * Len(sd.Methods)
        /\ \A i \in 1..Len(sd.Methods) :
              /\ ItemsOf(out, "register")[2 * i - 1].arg
                     = sd.Methods[i].ResponseType \o <<"{}">>
              /\ ItemsOf(out, "register")[2 * i].arg
                     = sd.Methods[i].RequestType \o <<"{}">>
        /\ Len(ItemsOf(out, "type")) = 1
        /\ Len(ItemsOf(out, "constructor")) = 1
        /\ Len(ItemsOf(out, "close")) = 1
        /\ Len(out) = 6 + 3 * Len(sd.Methods) + (IF sd.Methods = <<>> THEN 0 ELSE 1)

\* A rendered ServiceData with three methods whose types all differ.
C7_Witness ==
    /\ out # <<>>
    /\ Len(sd.Methods) = 3
    /\ \A i \in 1..3 : sd.Methods[i].RequestType # sd.Methods[i].ResponseType

(***************************************************************************)
(* The working directory.  A file is its package name, the type            *)
(* declarations (ast.TypeSpec) a parse of it yields, and, when this        *)
(* program wrote it (Generated), the text written.  The output directory   *)
(* is the flag's default ".", the working directory itself.                *)
(***************************************************************************)
TypeSpec(name, isInterface, methods) ==
    [Name |-> name, isInterface |-> isInterface, Methods |-> methods]

SourceFile(decls) ==
    [Package |-> StrApi, Decls |-> decls, Text |-> <<>>, Generated |-> FALSE]

StrSuffixGo == <<".", "g", "o">>
StrSuffixTestGo == <<"_", "t", "e", "s", "t", ".", "g", "o">>
StrSuffixGenGo == <<"_", "g", "e", "n", ".", "g", "o">>
StrClientGenGo ==
    <<"_", "c", "l", "i", "e", "n", "t", "_", "g", "e", "n", ".", "g", "o">>

FileA == <<"a", ".", "g", "o">>
FileB == <<"b", ".", "g", "o">>
FileTest == <<"a">> \o StrSuffixTestGo

\* The filter main hands to parser.ParseDir, without its _gen.go clause.
parseFilterNoGen(name) ==
    HasSuffix(name, StrSuffixGo) /\ ~HasSuffix(name, StrSuffixTestGo)

\* The filter main hands to parser.ParseDir.
parseFilter(name) ==
    /\ HasSuffix(name, StrSuffixGo)
    /\ ~HasSuffix(name, StrSuffixTestGo)
    /\ ~HasSuffix(name, StrSuffixGenGo)

\* fmt.Sprintf("%s_client_gen.go", strings.ToLower(serviceData.ServiceName))
outputFileName(serviceName) == ToLower(serviceName) \o StrClientGenGo

\* What a parse of the file this program writes for a service yields: the
\* client struct type, and text.
GeneratedFile(serviceData, text) ==
    [Package |-> serviceData.PackageName,
     Decls |-> <<TypeSpec(serviceData.ServiceName \o <<"Client">>, FALSE, <<>>)>>,
     Text |-> text, Generated |-> TRUE]

\* The directory with the file written (created, or truncated and rewritten).
WriteFile(d, name, content) ==
    [f \in DOMAIN d \cup {name} |-> IF f = name THEN content ELSE d[f]]

(***************************************************************************)
(* main: the ast.Inspect callback over one file, and over the files in the *)
(* order the maps of ParseDir's result are ranged over.                    *)
(***************************************************************************)
ServiceData(pkg, name, methods) ==
    [PackageName |-> pkg, ServiceName |-> name, Methods |-> methods]

\* extractMethods(fset, fileName, serviceName, interfaceType) as main calls it
extractInterface(typeSpec) == extractMethods(typeSpec.Methods)

RECURSIVE inspectDecls(_, _)
inspectDecls(pkg, decls) ==
    IF decls = <<>> THEN [panic |-> FALSE, services |-> <<>>]
    ELSE IF ~Head(decls).isInterface THEN inspectDecls(pkg, Tail(decls))
    ELSE IF extractInterface(Head(decls)).panic
         THEN [panic |-> TRUE, services |-> <<>>]
    ELSE [panic |-> inspectDecls(pkg, Tail(decls)).panic,
          services |->
              <<ServiceData(pkg, Head(decls).Name,
                            extractInterface(Head(decls)).methods)>>
                  \o inspectDecls(pkg, Tail(decls)).services]

RECURSIVE inspectFiles(_, _)
inspectFiles(d, files) ==
    IF files = <<>> THEN [panic |-> FALSE, services |-> <<>>]
    ELSE [panic |-> inspectDecls(d[Head(files)].Package, d[Head(files)].Decls).panic
                        \/ inspectFiles(d, Tail(files)).panic,
          services |->
              inspectDecls(d[Head(files)].Package, d[Head(files)].Decls).services
                  \o inspectFiles(d, Tail(files)).services]

\* The sequences that list each element of a finite set once.
Orders(S) ==
    {o \in [1..Cardinality(S) -> S] : \A i, j \in 1..Cardinality(S) : o[i] = o[j] => i = j}

\* The files ParseDir reads.
Eligible(d) == {f \in DOMAIN d : parseFilter(f)}

(***************************************************************************)
(* generateClientCode: the directory it leaves and the error it returns,   *)
(* for each way it can end.  A failed write leaves the created (or         *)
(* truncated) file with the first n items of the text; the runs take the   *)
(* two extremes, nothing written and all but the last item written.        *)
(***************************************************************************)
generateClientCode(d, serviceData, outcome, n) ==
    IF outcome = "render" THEN [err |-> "render", dir |-> d]
    ELSE IF outcome = "imports" THEN [err |-> "imports", dir |-> d]
    ELSE IF outcome = "create" THEN [err |-> "create", dir |-> d]
    ELSE IF outcome = "write"
         THEN [err |-> "write",
               dir |-> WriteFile(d, outputFileName(serviceData.ServiceName),
                           [GeneratedFile(serviceData,
                                SubSeq(formattedText(serviceData), 1, n))
                               EXCEPT !.Decls = <<>>])]
    ELSE [err |-> "none",
          dir |-> WriteFile(d, outputFileName(serviceData.ServiceName),
                      GeneratedFile(serviceData, formattedText(serviceData)))]

(***************************************************************************)
(* The scanned sources: method declarations, interfaces and directories.   *)
(***************************************************************************)
CtxParam == Field(1, Selector("context", "Context"))
ReplyResults == FieldList(<<Field(0, Star(Ident("Reply"))), Field(0, Ident("error"))>>)

\* Say(ctx Context, req *Msg) (*Reply, error)
SaySpec ==
    MethodDecl("Say",
        FuncType(FieldList(<<Field(1, Ident("Context")), Field(1, Star(Ident("Msg")))>>),
                 ReplyResults))
\* DoSomething(request Request) (*Response, error)
DoSomething ==
    MethodDecl("DoSomething",
        FuncType(FieldList(<<Field(1, Ident("Request"))>>),
                 FieldList(<<Field(0, Star(Ident("Response"))),
                             Field(0, Ident("error"))>>)))
\* Say(req *Msg) *Reply
SayNeg ==
    MethodDecl("Say",
        FuncType(FieldList(<<Field(1, Star(Ident("Msg")))>>),
                 FieldList(<<Field(0, Star(Ident("Reply")))>>)))
\* Ping(ctx context.Context, req Msg)
Ping ==
    MethodDecl("Ping",
        FuncType(FieldList(<<CtxParam, Field(1, Ident("Msg"))>>), NilFieldList))
\* Put(ctx pkg.Context, req Msg) (*Reply, error)
Put ==
    MethodDecl("Put",
        FuncType(FieldList(<<Field(1, Selector("pkg", "Context")),
                             Field(1, Ident("Msg"))>>),
                 ReplyResults))
\* Sub(ctx context.CancelFunc, req Msg) (*Reply, error)
Sub ==
    MethodDecl("Sub",
        FuncType(FieldList(<<Field(1, Selector("context", "CancelFunc")),
                             Field(1, Ident("Msg"))>>),
                 ReplyResults))
\* Get(ctx context.Context, req Msg) (*Reply, error)
Get ==
    MethodDecl("Get",
        FuncType(FieldList(<<CtxParam, Field(1, Ident("Msg"))>>), ReplyResults))
\* Del(context.Context, Key) (*Ack, error)
Del ==
    MethodDecl("Del",
        FuncType(FieldList(<<Field(0, Selector("context", "Context")),
                             Field(0, Ident("Key"))>>),
                 FieldList(<<Field(0, Star(Ident("Ack"))), Field(0, Ident("error"))>>)))

Interfaces ==
    { TypeSpec(StrEcho, TRUE, <<SaySpec>>),
      TypeSpec(StrMyService, TRUE, <<DoSomething>>),
      TypeSpec(StrEcho, TRUE, <<SayNeg, Get>>),
      TypeSpec(StrEchoLower, TRUE, <<Get, Del>>),
      TypeSpec(StrMyService, TRUE, <<Ping, Embedded("Closer"), Put, Sub, Del>>),
      TypeSpec(StrEchoLower, TRUE, <<Embedded("Closer")>>) }

\* type Msg struct { ... }
MsgStruct == TypeSpec(<<"M", "s", "g">>, FALSE, <<>>)

StrUser == <<"U", "s", "e", "r">>

\* a.go and b.go declare up to MaxIfaces interfaces between them, no two of
\* the same name; a.go also declares a struct and a_test.go an interface.
Directory(a, b) ==
    [f \in {FileA, FileB, FileTest} |->
        IF f = FileA THEN SourceFile(<<MsgStruct>> \o a)
        ELSE IF f = FileB THEN SourceFile(b)
        ELSE SourceFile(<<TypeSpec(StrUser, TRUE, <<Get>>)>>)]

DistinctNames(decls) ==
    \A i, j \in 1..Len(decls) : decls[i].Name = decls[j].Name => i = j

Directories ==
    { Directory(ab[1], ab[2]) :
        ab \in {p \in SeqsUpTo(Interfaces, MaxIfaces) \X SeqsUpTo(Interfaces, MaxIfaces) :
                   /\ Len(p[1]) + Len(p[2]) <= MaxIfaces
                   /\ DistinctNames(p[1] \o p[2])} }

(***************************************************************************)
(* Spec: runs of main over one directory.                                  *)
(***************************************************************************)
Init ==
    /\ dir \in Directories
    /\ pc = "Scanning"
    /\ serviceDatas = <<>>
    /\ idx = 0
    /\ run = 1
    /\ order = <<>>
    /\ failure = NoFailure
    /\ firstServices = {}
    /\ SigIdle
    /\ RenderIdle

\* main up to its generation loop: ParseDir with the filter, then ast.Inspect
\* over every file of every package, in the order the maps are ranged over.
Scan ==
    /\ pc = "Scanning"
    /\ \E o \in Orders(Eligible(dir)) :
          /\ order' = o
          /\ IF inspectFiles(dir, o).panic
             THEN pc' = "Panicked" /\ serviceDatas' = <<>> /\ idx' = 0
             ELSE /\ serviceDatas' = inspectFiles(dir, o).services
                  /\ idx' = 1
                  /\ pc' = IF inspectFiles(dir, o).services = <<>>
                           THEN "Done" ELSE "Generating"
          /\ firstServices' =
                IF run = 1 /\ ~inspectFiles(dir, o).panic
                THEN {inspectFiles(dir, o).services[i] :
                          i \in 1..Len(inspectFiles(dir, o).services)}
                ELSE firstServices
    /\ UNCHANGED <<dir, run, failure, sigVars, renderVars>>

\* One iteration of main's generation loop in which generateClientCode
\* returns nil.
GenerateOk ==
    /\ pc = "Generating"
    /\ dir' = generateClientCode(dir, serviceDatas[idx], "ok", 0).dir
    /\ idx' = idx + 1
    /\ pc' = IF idx = Len(serviceDatas) THEN "Done" ELSE "Generating"
    /\ UNCHANGED <<serviceDatas, run, order, failure, firstServices, sigVars, renderVars>>

\* One iteration in which generateClientCode returns an error: os.Exit(1).
GenerateFails(outcome, n) ==
    /\ pc = "Generating"
    /\ dir' = generateClientCode(dir, serviceDatas[idx], outcome, n).dir
    /\ failure' = [kind |-> generateClientCode(dir, serviceDatas[idx], outcome, n).err,
                   k |-> idx]
    /\ pc' = "Failed"
    /\ UNCHANGED <<serviceDatas, idx, run, order, firstServices, sigVars, renderVars>>

\* temp.Execute fails
GenerateRenderError ==
    /\ pc = "Generating"
    /\ GenerateFails("render", 0)

\* imports.Process fails
GenerateImportsError ==
    /\ pc = "Generating"
    /\ GenerateFails("imports", 0)

\* os.Create fails
GenerateCreateError ==
    /\ pc = "Generating"
    /\ GenerateFails("create", 0)

\* file.Write fails
GenerateWriteError ==
    /\ pc = "Generating"
    /\ \E written \in {0, Len(formattedText(serviceDatas[idx])) - 1} :
          GenerateFails("write", written)

\* The tool is run again over the directory as the last run left it.
NextRun ==
    /\ pc \in {"Done", "Failed", "Panicked"}
    /\ run < MaxRuns
    /\ run' = run + 1
    /\ pc' = "Scanning"
    /\ serviceDatas' = <<>>
    /\ idx' = 0
    /\ order' = <<>>
    /\ failure' = NoFailure
    /\ UNCHANGED <<dir, firstServices, sigVars, renderVars>>

Next ==
    \/ Scan
    \/ GenerateOk
    \/ GenerateRenderError
    \/ GenerateImportsError
    \/ GenerateCreateError
    \/ GenerateWriteError
    \/ NextRun

Spec == Init /\ [][Next]_vars

(***************************************************************************)
(* The six shape conditions of a method signature, on the parameters and   *)
(* results as declared: a field with n names declares n of them, an        *)
(* unnamed field one.                                                      *)
(***************************************************************************)
RECURSIVE TypesOf(_)
TypesOf(list) ==
    IF list = <<>> THEN <<>>
    ELSE [i \in 1..(IF Head(list).Names = 0 THEN 1 ELSE Head(list).Names) |->
             Head(list).Type] \o TypesOf(Tail(list))

ParamTypesOf(ft) == IF ft.Params.nil THEN <<>> ELSE TypesOf(ft.Params.List)
ResultTypesOf(ft) == IF ft.Results.nil THEN <<>> ELSE TypesOf(ft.Results.List)

\* A named type: a plain or a qualified type name.
IsNamedType(e) == e.stars = 0 /\ e.base \in {"Ident", "Selector"}

Cond1(ft) == Len(ParamTypesOf(ft)) = 2
Cond2(ft) ==
    /\ Len(ParamTypesOf(ft)) >= 1
    /\ ParamTypesOf(ft)[1] = Selector("context", "Context")
Cond3(ft) == Len(ParamTypesOf(ft)) >= 2 /\ IsIdent(ParamTypesOf(ft)[2])
Cond4(ft) == Len(ResultTypesOf(ft)) = 2
Cond5(ft) ==
    /\ Len(ResultTypesOf(ft)) >= 1
    /\ IsStarExpr(ResultTypesOf(ft)[1])
    /\ IsNamedType(StarX(ResultTypesOf(ft)[1]))
Cond6(ft) == Len(ResultTypesOf(ft)) >= 2 /\ ResultTypesOf(ft)[2] = Ident("error")

AllSixConditions(ft) ==
    Cond1(ft) /\ Cond2(ft) /\ Cond3(ft) /\ Cond4(ft) /\ Cond5(ft) /\ Cond6(ft)

\* C1: validateMethodSignature returns true if and only if the six shape
\* conditions hold together (two parameters counting grouped names, first
\* context.Context, second a plain named type, two results counting grouped
\* names, first a pointer to a named type, second error).
C1_ValidIffSixConditions ==
    verdict # "none" => (verdict = "true" <=> AllSixConditions(decl))

(***************************************************************************)
(* Type names of an extracted Method.                                      *)
(***************************************************************************)
\* A Go string that is one identifier: one token, not the indirection marker.
IsIdentifier(s) == Len(s) = 1 /\ s[1] \notin {"*", ""}
\* The declared name of a named type, <<>> for any other expression.
DeclaredName(e) == IF IsNamedType(e) THEN <<e.name>> ELSE <<>>

\* C9: in every extracted Method the response type name is a bare identifier
\* with no indirection marker left, equal to the declared name of the type
\* the first result points to, and the request type name is an identifier
\* equal to the declared name of the second parameter's type.
C9_TypeNamesAreDeclaredNames ==
    extracted.done =>
        \A i \in 1..Len(extracted.methods) :
            /\ IsIdentifier(extracted.methods[i].ResponseType)
            /\ extracted.methods[i].ResponseType
                   = DeclaredName(StarX(decl.Results.List[1].Type))
            /\ IsIdentifier(extracted.methods[i].RequestType)
            /\ extracted.methods[i].RequestType
                   = DeclaredName(decl.Params.List[2].Type)

(***************************************************************************)
(* The scanned tree, as the claims about a run speak of it.                *)
(***************************************************************************)
Range(q) == {q[i] : i \in 1..Len(q)}

IsInterfaceDecl(typeSpec) == typeSpec.isInterface

\* The interface declarations of the files read, in the order read.
RECURSIVE ScannedInterfaces(_, _)
ScannedInterfaces(d, files) ==
    IF files = <<>> THEN <<>>
    ELSE SelectSeq(d[Head(files)].Decls, IsInterfaceDecl)
             \o ScannedInterfaces(d, Tail(files))

\* The hand-written Go sources of the directory that are not tests.
SourceFiles(d) ==
    {f \in DOMAIN d :
        /\ ~d[f].Generated
        /\ HasSuffix(f, StrSuffixGo)
        /\ ~HasSuffix(f, StrSuffixTestGo)}

Scanned == pc \in {"Generating", "Done", "Failed"}

IsAccepted(m) == m.isFunc /\ validateMethodSignature(m.Type) = "true"
IsRejected(m) == m.isFunc /\ validateMethodSignature(m.Type) = "false"

\* The Method entries the accepted methods of an interface give, in
\* declaration order.
AcceptedMethods(typeSpec) ==
    [i \in 1..Len(SelectSeq(typeSpec.Methods, IsAccepted)) |->
        extractMethod(SelectSeq(typeSpec.Methods, IsAccepted)[i])]

MethodNames(methods) == {methods[i].Name : i \in 1..Len(methods)}
CallNames(text) == {text[i].name : i \in {j \in 1..Len(text) : text[j].kind = "call"}}

\* C8: every interface declaration of the scanned tree gives exactly one
\* ServiceData, whose methods are exactly the accepted methods declared on
\* the interface, in declaration order; rejected methods and embedded
\* interfaces give no entry, and an interface without accepted methods
\* still gives a ServiceData, with no methods.
C8_OneServicePerInterface ==
    Scanned =>
        /\ Range(order) = SourceFiles(dir)
        /\ Len(serviceDatas) = Len(ScannedInterfaces(dir, order))
        /\ \A i \in 1..Len(serviceDatas) :
              /\ serviceDatas[i].ServiceName = ScannedInterfaces(dir, order)[i].Name
              /\ serviceDatas[i].Methods
                     = AcceptedMethods(ScannedInterfaces(dir, order)[i])

\* A finished run over an interface with a rejected method before an
\* accepted one, and an interface with an embedded interface only.
C8_Witness ==
    /\ pc = "Done"
    /\ \E i, j \in 1..Len(serviceDatas) :
          /\ ScannedInterfaces(dir, order)[i].Methods = <<SayNeg, Get>>
          /\ Len(serviceDatas[i].Methods) = 1
          /\ ScannedInterfaces(dir, order)[j].Methods = <<Embedded("Closer")>>
          /\ serviceDatas[j].Methods = <<>>

\* C4: a shape violation is never fatal: validating any method ends in
\* accept or reject, never in a panic; a rejected method is in no
\* ServiceData and no generated client; the methods after it and the other
\* interfaces are still processed.
C4_ShapeViolationNotFatal ==
    /\ pc # "Panicked"
    /\ \A f \in SourceFiles(dir) : \A d \in Range(dir[f].Decls) :
          \A m \in Range(d.Methods) :
              m.isFunc => validateMethodSignature(m.Type) \in {"true", "false"}
    /\ Scanned =>
          /\ Len(serviceDatas) = Len(ScannedInterfaces(dir, order))
          /\ \A i \in 1..Len(serviceDatas) :
                \A m \in Range(ScannedInterfaces(dir, order)[i].Methods) :
                    /\ IsRejected(m) => m.Name \notin MethodNames(serviceDatas[i].Methods)
                    /\ IsAccepted(m) => m.Name \in MethodNames(serviceDatas[i].Methods)
          /\ \A f \in DOMAIN dir : \A i \in 1..Len(serviceDatas) :
                \A m \in Range(ScannedInterfaces(dir, order)[i].Methods) :
                    (dir[f].Generated /\ IsRejected(m)) => <<m.Name>> \notin CallNames(dir[f].Text)

\* A finished run in which Say(req *Msg) *Reply and a method without results
\* were rejected, the method after the rejected Say is in the written client
\* and the interface after it has its client too.
C4_Witness ==
    /\ pc = "Done"
    /\ Len(serviceDatas) = 2
    /\ ScannedInterfaces(dir, order)[1].Methods = <<SayNeg, Get>>
    /\ Ping \in Range(ScannedInterfaces(dir, order)[2].Methods)
    /\ CallNames(dir[outputFileName(StrEcho)].Text) = {<<"Get">>}
    /\ CallNames(dir[outputFileName(StrMyService)].Text) = {<<"Del">>}

\* C5: after a run that ends without error every discovered service has its
\* own output file, lowercase(ServiceName) + "_client_gen.go", holding the
\* rendering of that service's own ServiceData.
C5_EveryServiceHasItsFile ==
    pc = "Done" =>
        \A i \in 1..Len(serviceDatas) :
            /\ outputFileName(serviceDatas[i].ServiceName) \in DOMAIN dir
            /\ dir[outputFileName(serviceDatas[i].ServiceName)].Text
                   = formattedText(serviceDatas[i])

\* The file of the i-th service is in d2 as it is in d1 (absent, or the same).
FileKept(d1, d2, i) ==
    IF outputFileName(serviceDatas[i].ServiceName) \in DOMAIN d1
    THEN /\ outputFileName(serviceDatas[i].ServiceName) \in DOMAIN d2
         /\ d2[outputFileName(serviceDatas[i].ServiceName)]
                = d1[outputFileName(serviceDatas[i].ServiceName)]
    ELSE outputFileName(serviceDatas[i].ServiceName) \notin DOMAIN d2

\* C6: a failure for the k-th service halts the run: no return to Scanning
\* within the run, no file created or written for a later service, no file
\* created for the k-th on a render or import error, and the files of the
\* services before the k-th stay as written.
C6_HaltOnFirstFailure ==
    [][ /\ (pc = "Generating" /\ pc' = "Failed") =>
              /\ failure'.k = idx
              /\ \A j \in 1..(idx - 1) : FileKept(dir, dir', j)
              /\ \A j \in (idx + 1)..Len(serviceDatas) :
                    outputFileName(serviceDatas[j].ServiceName)
                            # outputFileName(serviceDatas[idx].ServiceName)
                        => FileKept(dir, dir', j)
              /\ failure'.kind \in {"render", "imports"} => dir' = dir
        /\ (pc \in {"Generating", "Failed"} /\ pc' = "Scanning") => run' = run + 1
        /\ pc = "Failed" => (dir' = dir /\ pc' \in {"Failed", "Scanning"})
      ]_vars

\* C6 for the services whose file name no other service of the run shares.
C6_HaltWhenNamesDiffer ==
    [][ /\ (pc = "Generating" /\ pc' = "Failed") =>
              /\ failure'.k = idx
              /\ \A j \in 1..Len(serviceDatas) :
                    (j # idx /\ outputFileName(serviceDatas[j].ServiceName)
                                    # outputFileName(serviceDatas[idx].ServiceName))
                        => FileKept(dir, dir', j)
              /\ failure'.kind \in {"render", "imports"} => dir' = dir
        /\ (pc \in {"Generating", "Failed"} /\ pc' = "Scanning") => run' = run + 1
        /\ pc = "Failed" => (dir' = dir /\ pc' \in {"Failed", "Scanning"})
      ]_vars

\* The names of the services of the scanned sources, and the empty name.
ServiceNames == {StrEcho, StrEchoLower, StrMyService, StrUser, <<>>}

\* C10: the filter rejects every file name the generator can write and every
\* _test.go file, so no run reads a generated file as source, and a later run
\* over the directory discovers the services the first run discovered.
C10_GeneratedFilesNotIngested ==
    /\ \A n \in ServiceNames : ~parseFilter(outputFileName(n))
    /\ \A f \in DOMAIN dir :
          (dir[f].Generated \/ HasSuffix(f, StrSuffixTestGo)) =>
              /\ ~parseFilter(f)
              /\ f \notin Range(order)
    /\ (run > 1 /\ Scanned) => Range(serviceDatas) = firstServices

\* A second run that ended over a directory holding a generated file.
C10_Witness ==
    /\ run = 2
    /\ pc = "Done"
    /\ serviceDatas # <<>>
    /\ \E f \in DOMAIN dir : dir[f].Generated /\ dir[f].Text # <<>>

(***************************************************************************)
(* The two example interfaces.                                             *)
(***************************************************************************)
\* The run read exactly one interface, the given one.
OnlyInterface(typeSpec) == ScannedInterfaces(dir, order) = <<typeSpec>>

EchoFile == outputFileName(StrEcho)
MyServiceFile == outputFileName(StrMyService)

\* The client type, the constructor and the Close method of a service.
HasClientFrame(text, serviceName) ==
    /\ ItemsOf(text, "type") = <<clientType(ServiceData(StrApi, serviceName, <<>>))>>
    /\ ItemsOf(text, "constructor")
           = <<Item("constructor", <<"New">> \o serviceName \o <<"Client">>,
                    <<"string">>, <<"*">> \o serviceName \o <<"Client">>,
                    <<"rpc.Dial">>)>>
    /\ ItemsOf(text, "close")
           = <<Item("close", <<"Close">>, <<>>, <<"error">>, <<"c.client.Close">>)>>

\* C2 as stated: for the interface Echo with the only method
\* Say(ctx Context, req *Msg) (*Reply, error) a run generates EchoClient,
\* NewEchoClient(address) (*EchoClient, error), Close() error and a method
\* Say(req *Msg) (*Reply, error) that calls "Echo.Say".
C2_EchoClientHasSay ==
    (pc = "Done" /\ OnlyInterface(TypeSpec(StrEcho, TRUE, <<SaySpec>>))) =>
        /\ EchoFile \in DOMAIN dir
        /\ HasClientFrame(dir[EchoFile].Text, StrEcho)
        /\ ItemsOf(dir[EchoFile].Text, "call")
               = <<Item("call", <<"Say">>, <<"*", "Msg">>, <<"*", "Reply">>,
                        StrEcho \o <<".", "Say">>)>>

\* C2 as amended: for that interface a run generates EchoClient,
\* NewEchoClient(address) (*EchoClient, error) and Close() error, and no
\* method Say: the validator rejects Say, so the client has no call method.
C2_EchoClientWithoutSay ==
    (pc = "Done" /\ OnlyInterface(TypeSpec(StrEcho, TRUE, <<SaySpec>>))) =>
        /\ serviceDatas = <<ServiceData(StrApi, StrEcho, <<>>)>>
        /\ EchoFile \in DOMAIN dir
        /\ HasClientFrame(dir[EchoFile].Text, StrEcho)
        /\ ItemsOf(dir[EchoFile].Text, "call") = <<>>

\* A finished run over the interface Echo { Say(ctx Context, req *Msg) (*Reply, error) }.
C2_Witness ==
    /\ pc = "Done"
    /\ OnlyInterface(TypeSpec(StrEcho, TRUE, <<SaySpec>>))
    /\ EchoFile \in DOMAIN dir
    /\ dir[EchoFile].Generated

\* C3: for the interface MyService with the only method
\* DoSomething(request Request) (*Response, error) a run writes
\* myservice_client_gen.go with NewMyServiceClient and a client method
\* DoSomething(request Request) (*Response, error), the instance at hand of
\* the client having a method for each method of the interface.
C3_ClientHasEveryMethod ==
    (pc = "Done" /\ OnlyInterface(TypeSpec(StrMyService, TRUE, <<DoSomething>>))) =>
        /\ MyServiceFile \in DOMAIN dir
        /\ HasClientFrame(dir[MyServiceFile].Text, StrMyService)
        /\ \E i \in 1..Len(dir[MyServiceFile].Text) :
              /\ dir[MyServiceFile].Text[i].kind = "call"
              /\ dir[MyServiceFile].Text[i].name = <<"DoSomething">>
              /\ dir[MyServiceFile].Text[i].arg = <<"Request">>
              /\ dir[MyServiceFile].Text[i].ret = <<"*", "Response">>

====
